---------------------------- MODULE Spec2Model ----------------------------
(***************************************************************************)
(* Model of the Readline line-editing session of react-term                *)
(* (src/unnamed/part_002, class Readline), in interactive (terminal) mode.  *)
(*                                                                         *)
(* A JavaScript string is modelled as a sequence of one-character tokens:  *)
(* "a", "b" are word characters, " " is whitespace, "-" is punctuation,    *)
(* "W" is a full-width (two column) code point, "LF" and "CR" are the line *)
(* terminators and "ESC" is the escape control character.                  *)
(***************************************************************************)
EXTENDS Integers, Sequences, FiniteSets, TLC

VARIABLES
    line,              \* this.line
    cursor,            \* this.cursor
    history,           \* this.history, most recent first
    historyIndex,      \* this.historyIndex
    historySize,       \* this.historySize: [defined, value]
    prompt,            \* this._prompt
    oldPrompt,         \* this._oldPrompt
    questionCallback,  \* this._questionCallback: 0 when none, else the callback's id
    paused,            \* this.paused
    closed,            \* this.closed
    prevRows,          \* this.prevRows
    watched,           \* whether the terminal the output writes to is observed
    tty,               \* the cursor of an observed terminal, as the output written
                       \* so far leaves it: [col, row], rows from the prompt's first
    terminal,          \* this.terminal
    lineBuffer,        \* this._line_buffer
    now,               \* the clock Date.now() reads, in milliseconds
    crlfDelay,         \* this.crlfDelay
    sawReturnAt,       \* this._sawReturnAt
    sawRetrnAt,        \* this._sawRetrnAt, the field the 'return' case assigns
    columns,           \* this.output.columns: 0 when the output has none
    error,             \* the exception the last handler ended with, or "none"
    config,            \* the arguments the session was constructed with
    lineListener,      \* whether the client registered a recording 'line' listener
    sigintListeners,   \* this.listenerCount('SIGINT')
    received,          \* the lines that listener was called with, in order
    answers,           \* <<callback id, line>> for every question callback invoked
    emitted,           \* the names this.emit was called with, 'line' apart, in order
    shell,             \* the CommandClass that runs the session, if one does: how
                       \* often run() was called and how many '^C' lines it wrote
    pending,           \* the characters buffered in the input's escape decoder
    timer,             \* whether the escape timeout (timeoutId) is armed
    keys,              \* the 'keypress' events the decoder emitted, in order
    nextCallback,      \* the id of the next callback a client passes to question()
    ignored            \* ids of the callbacks passed while a question was outstanding

vars == <<line, cursor, history, historyIndex, historySize, prompt, oldPrompt,
          questionCallback, paused, closed, prevRows, watched, tty, terminal,
          lineBuffer, now, crlfDelay, sawReturnAt, sawRetrnAt,
          columns,
          error, config,
          lineListener, sigintListeners, received, answers, emitted, shell, pending,
          timer, keys, nextCallback, ignored>>

-----------------------------------------------------------------------------
(* Bounds of the model *)

MaxLen == 3
MaxCommits == 3
MaxQuestions == 2
MaxHistorySize == 2
MaxEvents == 4
MaxKeys == 3
TermColumns == 4
MaxRuns == 3
MaxTicks == 3

(* Program constants *)

HISTORY_SIZE == 30
MAX_DELAY == 100
MIN_DELAY == 2000
DEFAULT_DELAY == 200

-----------------------------------------------------------------------------
(* Strings *)

WordChars == {"a", "b", "c", "A"}
SpaceChars == {" ", "LF", "CR"}
WideChars == {"W"}

CodePoint(c) ==
    CASE c = "a" -> 97
      [] c = "b" -> 98
      [] c = "c" -> 99
      [] c = " " -> 32
      [] c = "-" -> 45
      [] c = "LF" -> 10
      [] c = "CR" -> 13
      [] c = "ESC" -> 27
      [] c = "ETX" -> 3
      [] c = "EOT" -> 4
      [] c = "[" -> 91
      [] c = "A" -> 65
      [] c = "W" -> 65335
      [] OTHER -> 0

Min(a, b) == IF a < b THEN a ELSE b

\* String.prototype.slice(from, to) with 0-based, non-negative arguments
Slice(str, from, to) == SubSeq(str, Min(from, Len(str)) + 1, Min(to, Len(str)))

RECURSIVE LeadingSpaces(_)
LeadingSpaces(str) ==
    IF str = <<>> \/ Head(str) \notin SpaceChars THEN 0
    ELSE 1 + LeadingSpaces(Tail(str))

RECURSIVE TrailingSpaces(_)
TrailingSpaces(str) ==
    IF str = <<>> \/ str[Len(str)] \notin SpaceChars THEN 0
    ELSE 1 + TrailingSpaces(SubSeq(str, 1, Len(str) - 1))

\* String.prototype.trim()
Trim(str) ==
    IF LeadingSpaces(str) = Len(str) THEN <<>>
    ELSE SubSeq(str, LeadingSpaces(str) + 1, Len(str) - TrailingSpaces(str))

Undefined == <<"undefined">>
Null == <<"null">>
NoCallback == 0

-----------------------------------------------------------------------------
(* The session as a record, so that a handler is a composition of methods *)

Self ==
    [line |-> line, cursor |-> cursor, history |-> history,
     historyIndex |-> historyIndex, historySize |-> historySize,
     prompt |-> prompt, oldPrompt |-> oldPrompt,
     questionCallback |-> questionCallback, paused |-> paused,
     closed |-> closed, prevRows |-> prevRows, watched |-> watched,
     tty |-> tty,
     terminal |-> terminal,
     lineBuffer |-> lineBuffer, now |-> now, crlfDelay |-> crlfDelay,
     sawReturnAt |-> sawReturnAt, sawRetrnAt |-> sawRetrnAt, columns |-> columns,
     error |-> "none", lineListener |-> lineListener,
     sigintListeners |-> sigintListeners, received |-> received,
     answers |-> answers, emitted |-> emitted, shell |-> shell]

Becomes(s) ==
    /\ line' = s.line
    /\ cursor' = s.cursor
    /\ history' = s.history
    /\ historyIndex' = s.historyIndex
    /\ historySize' = s.historySize
    /\ prompt' = s.prompt
    /\ oldPrompt' = s.oldPrompt
    /\ questionCallback' = s.questionCallback
    /\ paused' = s.paused
    /\ closed' = s.closed
    /\ prevRows' = s.prevRows
    /\ watched' = s.watched
    /\ tty' = s.tty
    /\ terminal' = s.terminal
    /\ lineBuffer' = s.lineBuffer
    /\ now' = s.now
    /\ crlfDelay' = s.crlfDelay
    /\ sawReturnAt' = s.sawReturnAt
    /\ sawRetrnAt' = s.sawRetrnAt
    /\ columns' = s.columns
    /\ error' = s.error
    /\ lineListener' = s.lineListener
    /\ sigintListeners' = s.sigintListeners
    /\ received' = s.received
    /\ answers' = s.answers
    /\ emitted' = s.emitted
    /\ shell' = s.shell

\* A statement that runs only if no exception is propagating
\* F applied to the value of v, with v evaluated once
Bind(v, F(_)) == CHOOSE y \in {F(x) : x \in {v}} : TRUE

Throw(s, e) == [s EXCEPT !.error = e]
Ok(s) == s.error = "none"

-----------------------------------------------------------------------------
(* Util: not part of the sources at hand *)

IsFullWidthCodePoint(c) == c \in WideChars

StripVTControlCharacters(str) == SelectSeq(str, LAMBDA c : c # "ESC")

-----------------------------------------------------------------------------
(* Display geometry.  A column count of 0 stands for the getter's Infinity. *)

Columns(s) == s.columns

ModCol(x, col) == IF col = 0 THEN x ELSE x % col
DivCol(x, col) == IF col = 0 THEN 0 ELSE x \div col

RECURSIVE DisplayScan(_, _, _, _, _)
DisplayScan(str, i, offset, row, col) ==
    IF i > Len(str) THEN [offset |-> offset, row |-> row]
    ELSE LET code == CodePoint(str[i])
             next == IF code >= 65536 THEN i + 2 ELSE i + 1
         IN  IF code = 10 THEN DisplayScan(str, next, 0, row + 1, col)
             ELSE IF IsFullWidthCodePoint(str[i])
                  THEN DisplayScan(str, next,
                         (IF ModCol(offset + 1, col) = 0 THEN offset + 1 ELSE offset) + 2,
                         row, col)
                  ELSE DisplayScan(str, next, offset + 1, row, col)

\* mutant: a wide code point takes its two columns wherever it starts
RECURSIVE DisplayScanNoPad(_, _, _, _, _)
DisplayScanNoPad(str, i, offset, row, col) ==
    IF i > Len(str) THEN [offset |-> offset, row |-> row]
    ELSE IF CodePoint(str[i]) = 10 THEN DisplayScanNoPad(str, i + 1, 0, row + 1, col)
    ELSE DisplayScanNoPad(str, i + 1,
             offset + (IF IsFullWidthCodePoint(str[i]) THEN 2 ELSE 1), row, col)

GetDisplayPosNoPad(s, str) ==
    LET col == Columns(s)
        r == DisplayScanNoPad(StripVTControlCharacters(str), 1, 0, 0, col)
        cols == ModCol(r.offset, col)
    IN  [cols |-> cols, rows |-> r.row + DivCol(r.offset - cols, col)]

GetDisplayPos(s, str) ==
    LET col == Columns(s)
        r == DisplayScan(StripVTControlCharacters(str), 1, 0, 0, col)
        cols == ModCol(r.offset, col)
    IN  [cols |-> cols, rows |-> r.row + DivCol(r.offset - cols, col)]

GetCursorPos(s) ==
    LET strBeforeCursor == s.prompt \o Slice(s.line, 0, s.cursor)
        dispPos == GetDisplayPos(s, StripVTControlCharacters(strBeforeCursor))
    IN  IF /\ dispPos.cols + 1 = Columns(s)
           /\ s.cursor < Len(s.line)
           /\ IsFullWidthCodePoint(s.line[s.cursor + 1])
        THEN [cols |-> 0, rows |-> dispPos.rows + 1]
        ELSE dispPos

\* the terminal's cursor after str is written with the cursor at pos: the
\* terminal wraps text as _getDisplayPos lays it out
Advance(s, pos, str) ==
    LET col == Columns(s)
        r == DisplayScan(str, 1, pos.col, pos.row, col)
        cols == ModCol(r.offset, col)
    IN  [col |-> cols, row |-> r.row + DivCol(r.offset - cols, col)]

\* the output's writes leave the cursor of an observed terminal at pos
CursorAt(s, pos) == IF s.watched THEN [s EXCEPT !.tty = pos] ELSE s

\* this._writeToOutput(str)
WriteToOutput(s, str) == CursorAt(s, Advance(s, s.tty, str))

\* _refreshLine: up prevRows rows, to column 0, clear, write prompt and line
\* (and a space when they end a row), to the cursor's column, up to its row.
\* The text written from column 0 leaves the terminal's cursor position.rows
\* rows further down; the space and cursorTo move it within that row.
Redrawn(s, position, cursorPos) ==
    LET top == s.tty.row - s.prevRows
        diff == position.rows - cursorPos.rows
    IN  [CursorAt(s, [col |-> cursorPos.cols,
                      row |-> top + position.rows - (IF diff > 0 THEN diff ELSE 0)])
            EXCEPT !.prevRows = cursorPos.rows]

RefreshLine(s) ==
    Bind(s, LAMBDA r :
        Bind(GetDisplayPos(r, r.prompt \o r.line), LAMBDA position :
            Bind(GetCursorPos(r), LAMBDA cursorPos : Redrawn(r, position, cursorPos))))

\* The argument of _moveCursor: a finite step, or +Infinity / -Infinity
Step(n) == [inf |-> FALSE, n |-> n]
PlusInfinity == [inf |-> TRUE, n |-> 1]
MinusInfinity == [inf |-> TRUE, n |-> -1]

\* mutant: the new offset is not clamped into the line
MoveCursorUnclamped(s, x) ==
    LET t == [s EXCEPT !.cursor = IF x.inf THEN (IF x.n < 0 THEN 0 ELSE Len(s.line))
                                  ELSE s.cursor + x.n]
    IN  [t EXCEPT !.prevRows = GetCursorPos(t).rows]

\* _moveCursor.  Within one row it calls Readline.moveCursor(this.ouput, ...):
\* the stream is undefined and nothing is written.
Clamped(s, x) ==
    LET len == Len(s.line)
    IN  IF x.inf THEN (IF x.n < 0 THEN 0 ELSE len)
        ELSE IF s.cursor + x.n < 0 THEN 0
        ELSE IF s.cursor + x.n > len THEN len
        ELSE s.cursor + x.n

MoveCursor(s, x) ==
    Bind(s, LAMBDA old :
        Bind([old EXCEPT !.cursor = Clamped(old, x)], LAMBDA t :
            Bind(GetCursorPos(t), LAMBDA newPos :
                IF GetCursorPos(old).rows = newPos.rows
                THEN [t EXCEPT !.prevRows = newPos.rows]
                ELSE RefreshLine(t))))

-----------------------------------------------------------------------------
(* Prompt *)

SetPrompt(s, p, noPad) ==
    [s EXCEPT !.prompt = IF ~noPad /\ Trim(p) = p THEN p \o <<" ">> ELSE p]

-----------------------------------------------------------------------------
(* Editing *)

InsertString(s, c) ==
    IF s.cursor < Len(s.line)
    THEN Throw(s, "ReferenceError")
    ELSE Bind([s EXCEPT !.line = s.line \o c, !.cursor = s.cursor + Len(c)],
              LAMBDA t : MoveCursor(IF GetCursorPos(t).cols = 0
                                    THEN RefreshLine(t) ELSE WriteToOutput(t, c),
                                    Step(0)))

DeleteLeft(s) ==
    IF s.cursor > 0 /\ Len(s.line) > 0
    THEN RefreshLine([s EXCEPT
             !.line = Slice(s.line, 0, s.cursor - 1) \o Slice(s.line, s.cursor, Len(s.line)),
             !.cursor = s.cursor - 1])
    ELSE s

DeleteRight(s) ==
    RefreshLine([s EXCEPT
        !.line = Slice(s.line, 0, s.cursor) \o Slice(s.line, s.cursor + 1, Len(s.line))])

CharClass(c) ==
    IF c \in SpaceChars THEN "space"
    ELSE IF c \in WordChars THEN "word" ELSE "other"

\* length of the longest suffix of str made of characters whose class is in cls
RECURSIVE SuffixRun(_, _)
SuffixRun(str, cls) ==
    IF str = <<>> \/ CharClass(str[Len(str)]) \notin cls THEN 0
    ELSE 1 + SuffixRun(SubSeq(str, 1, Len(str) - 1), cls)

\* length of the longest prefix of str made of characters whose class is in cls
RECURSIVE PrefixRun(_, _)
PrefixRun(str, cls) ==
    IF str = <<>> \/ CharClass(Head(str)) \notin cls THEN 0
    ELSE 1 + PrefixRun(Tail(str), cls)

\* length of the match of /([^\w\s]+|\w+|)\s*$/
MatchWordLeft(leading) ==
    LET sp == SuffixRun(leading, {"space"})
        rest == SubSeq(leading, 1, Len(leading) - sp)
    IN  IF rest = <<>> THEN sp
        ELSE sp + SuffixRun(rest, {CharClass(rest[Len(rest)])})

\* length of the match of /^(\s+|\W+|\w+)\s*/
MatchWordRight(trailing) ==
    IF PrefixRun(trailing, {"space"}) > 0 THEN PrefixRun(trailing, {"space"})
    ELSE IF PrefixRun(trailing, {"space", "other"}) > 0
         THEN PrefixRun(trailing, {"space", "other"})
    ELSE LET w == PrefixRun(trailing, {"word"})
         IN  w + PrefixRun(SubSeq(trailing, w + 1, Len(trailing)), {"space"})

WordLeft(s) ==
    IF s.cursor > 0
    THEN MoveCursor(s, Step(0 - MatchWordLeft(Slice(s.line, 0, s.cursor))))
    ELSE s

WordRight(s) ==
    IF s.cursor < Len(s.line)
    THEN MoveCursor(s, Step(MatchWordRight(Slice(s.line, s.cursor, Len(s.line)))))
    ELSE s

DeleteWordLeft(s) ==
    IF s.cursor > 0
    THEN LET leading == Slice(s.line, 0, s.cursor)
             kept == Slice(leading, 0, Len(leading) - MatchWordLeft(leading))
         IN  RefreshLine([s EXCEPT
                 !.line = kept \o Slice(s.line, s.cursor, Len(s.line)),
                 !.cursor = Len(kept)])
    ELSE s

DeleteWordRight(s) ==
    IF s.cursor < Len(s.line)
    THEN LET trailing == Slice(s.line, s.cursor, Len(s.line))
         IN  RefreshLine([s EXCEPT
                 !.line = Slice(s.line, 0, s.cursor) \o
                          Slice(trailing, MatchWordRight(trailing), Len(trailing))])
    ELSE s

DeleteLineLeft(s) ==
    RefreshLine([s EXCEPT !.line = Slice(s.line, s.cursor, Len(s.line)),
                          !.cursor = 0])

DeleteLineRight(s) ==
    RefreshLine([s EXCEPT !.line = Slice(s.line, 0, s.cursor)])

-----------------------------------------------------------------------------
(* History *)

\* history.length > this.historySize, false when historySize is undefined
Exceeds(n, size) == size.defined /\ n > size.value

\* mutant: shift() in place of pop(), dropping the entry just pushed
AddHistoryShift(s) ==
    IF Len(s.line) = 0 THEN [s |-> s, ret |-> <<>>]
    ELSE IF s.historySize.defined /\ s.historySize.value = 0
         THEN [s |-> s, ret |-> s.line]
    ELSE IF Len(Trim(s.line)) = 0 THEN [s |-> s, ret |-> s.line]
    ELSE LET pushed == IF Len(s.history) = 0 \/ s.history[1] # s.line
                       THEN LET h == <<s.line>> \o s.history
                            IN  IF Exceeds(Len(h), s.historySize)
                                THEN Tail(h) ELSE h
                       ELSE s.history
         IN  [s |-> [s EXCEPT !.history = pushed, !.historyIndex = -1],
              ret |-> s.line]

\* mutant: a line found anywhere in the history is not pushed again
AddHistoryDedupAll(s) ==
    IF Len(s.line) = 0 THEN [s |-> s, ret |-> <<>>]
    ELSE IF s.historySize.defined /\ s.historySize.value = 0
         THEN [s |-> s, ret |-> s.line]
    ELSE IF Len(Trim(s.line)) = 0 THEN [s |-> s, ret |-> s.line]
    ELSE LET pushed == IF \A i \in DOMAIN s.history : s.history[i] # s.line
                       THEN LET h == <<s.line>> \o s.history
                            IN  IF Exceeds(Len(h), s.historySize)
                                THEN SubSeq(h, 1, Len(h) - 1) ELSE h
                       ELSE s.history
         IN  [s |-> [s EXCEPT !.history = pushed, !.historyIndex = -1],
              ret |-> s.line]

\* mutant: the whitespace-only test is missing
AddHistoryNoTrim(s) ==
    IF Len(s.line) = 0 THEN [s |-> s, ret |-> <<>>]
    ELSE IF s.historySize.defined /\ s.historySize.value = 0
         THEN [s |-> s, ret |-> s.line]
    ELSE LET pushed == IF Len(s.history) = 0 \/ s.history[1] # s.line
                       THEN LET h == <<s.line>> \o s.history
                            IN  IF Exceeds(Len(h), s.historySize)
                                THEN SubSeq(h, 1, Len(h) - 1) ELSE h
                       ELSE s.history
         IN  [s |-> [s EXCEPT !.history = pushed, !.historyIndex = -1],
              ret |-> pushed[1]]

\* _addHistory: the session afterwards and the value returned
AddHistory(s) ==
    IF Len(s.line) = 0 THEN [s |-> s, ret |-> <<>>]
    ELSE IF s.historySize.defined /\ s.historySize.value = 0
         THEN [s |-> s, ret |-> s.line]
    ELSE IF Len(Trim(s.line)) = 0 THEN [s |-> s, ret |-> s.line]
    ELSE LET pushed == IF Len(s.history) = 0 \/ s.history[1] # s.line
                       THEN LET h == <<s.line>> \o s.history
                            IN  IF Exceeds(Len(h), s.historySize)
                                THEN SubSeq(h, 1, Len(h) - 1) ELSE h
                       ELSE s.history
         IN  [s |-> [s EXCEPT !.history = pushed, !.historyIndex = -1],
              ret |-> pushed[1]]

HistoryNext(s) ==
    IF s.historyIndex > 0
    THEN LET l == s.history[s.historyIndex]
         IN  RefreshLine([s EXCEPT !.historyIndex = s.historyIndex - 1,
                                   !.line = l, !.cursor = Len(l)])
    ELSE IF s.historyIndex = 0
         THEN RefreshLine([s EXCEPT !.historyIndex = -1, !.cursor = 0, !.line = <<>>])
    ELSE s

\* mutant: the recalled line is shown with the cursor left where it was
HistoryPrevKeepsCursor(s) ==
    IF s.historyIndex + 1 < Len(s.history)
    THEN LET l == s.history[s.historyIndex + 2]
         IN  RefreshLine([s EXCEPT !.historyIndex = s.historyIndex + 1,
                                   !.line = l, !.cursor = Min(s.cursor, Len(l))])
    ELSE s

HistoryPrev(s) ==
    IF s.historyIndex + 1 < Len(s.history)
    THEN LET l == s.history[s.historyIndex + 2]
         IN  RefreshLine([s EXCEPT !.historyIndex = s.historyIndex + 1,
                                   !.line = l, !.cursor = Len(l)])
    ELSE s

-----------------------------------------------------------------------------
(* Lifecycle and line delivery *)

\* this.emit(name) for 'close', 'pause', 'resume' and 'SIGINT'
Emit(s, name) == [s EXCEPT !.emitted = Append(s.emitted, name)]

\* mutant: close() without the test of this.closed
CloseAgain(s) == Emit([s EXCEPT !.closed = TRUE], "close")

Close(s) == IF s.closed THEN s ELSE Emit([s EXCEPT !.closed = TRUE], "close")

Resume(s) == IF ~s.paused THEN s ELSE Emit([s EXCEPT !.paused = FALSE], "resume")

\* mutant: pause() without the test of this.paused
PauseAgain(s) == Emit([s EXCEPT !.paused = TRUE], "pause")

Pause(s) == IF s.paused THEN s ELSE Emit([s EXCEPT !.paused = TRUE], "pause")

\* this.emit('SIGINT'): the listeners are the client's and leave the session alone
EmitSigint(s) == Emit(s, "SIGINT")

\* mutant: ctrl-c closes the session whether or not SIGINT has listeners
InterruptCloses(s) == Close(s)

\* case 'c' of the ctrl switch, up to the missing break
Interrupt(s) == IF s.sigintListeners > 0 THEN EmitSigint(s) ELSE Close(s)

Prompt(s, preserveCursor) ==
    LET r == IF s.paused THEN Resume(s) ELSE s
    IN  IF r.terminal
        THEN RefreshLine(IF ~preserveCursor THEN [r EXCEPT !.cursor = 0] ELSE r)
        ELSE WriteToOutput(r, r.prompt)

\* CommandClass.onLine, the 'line' listener of a session that a CommandClass
\* runs: a line that begins with a word names a command, and with no command
\* registered 'command not found' and a newline are written; then prompt()
ShellOnLine(s, l) ==
    Prompt(IF l # <<>> /\ l[1] # " " THEN CursorAt(s, [col |-> 0, row |-> 0]) ELSE s,
           FALSE)

\* this.emit('line', l): the recording listener, when registered, notes l
EmitLine(s, l) ==
    Bind(IF s.lineListener THEN [s EXCEPT !.received = Append(s.received, l)] ELSE s,
         LAMBDA r : IF r.shell.runs > 0 THEN ShellOnLine(r, l) ELSE r)

\* onTermEnd: the 'end' listener of an interactive session
OnTermEnd(s) == Close(IF Len(s.line) > 0 THEN EmitLine(s, s.line) ELSE s)

\* mutant: the callback stays armed after it was invoked
OnLineKeepsCallback(s, l) ==
    IF s.questionCallback # NoCallback
    THEN LET t == SetPrompt(s, s.oldPrompt, FALSE)
         IN  [t EXCEPT !.answers = Append(t.answers, <<s.questionCallback, l>>)]
    ELSE EmitLine(s, l)

OnLine(s, l) ==
    IF s.questionCallback # NoCallback
    THEN LET cb == s.questionCallback
             t == SetPrompt([s EXCEPT !.questionCallback = NoCallback],
                            s.oldPrompt, FALSE)
         IN  [t EXCEPT !.answers = Append(t.answers, <<cb, l>>)]
    ELSE EmitLine(s, l)

\* clearLine; the '\r\n' it writes puts the terminal's cursor at the start
\* of the row below, the first row of the next prompt
ClearLine(s) ==
    [CursorAt(MoveCursor(s, PlusInfinity), [col |-> 0, row |-> 0])
        EXCEPT !.line = <<>>, !.cursor = 0, !.prevRows = 0]

Line(s) ==
    Bind(AddHistory(s), LAMBDA a :
        Bind(ClearLine(a.s), LAMBDA cleared : OnLine(cleared, a.ret)))

\* mutant: a second question replaces the outstanding one
QuestionRearms(s, query, cb) ==
    Prompt([SetPrompt([s EXCEPT !.oldPrompt = s.prompt], query, FALSE)
               EXCEPT !.questionCallback = cb], FALSE)

Question(s, query, cb) ==
    IF s.questionCallback # NoCallback
    THEN Prompt(s, FALSE)
    ELSE Prompt([SetPrompt([s EXCEPT !.oldPrompt = s.prompt], query, FALSE)
                    EXCEPT !.questionCallback = cb], FALSE)

-----------------------------------------------------------------------------
(* Line mode *)

\* LINE_ENDING.test(string): a CR or an LF anywhere matches /\r?\n|\r(?!\n)/
IsMultiLine(string) == \E i \in DOMAIN string : string[i] \in {"CR", "LF"}

EndsWithCR(string) == string # <<>> /\ string[Len(string)] = "CR"

\* whether this._line_buffer holds a non-empty string
Buffered(s) == s.lineBuffer \notin {Undefined, Null, <<>>}

\* lines.forEach(line => this._onLine(line)) from lines[i] on
RECURSIVE OnLines(_, _, _)
OnLines(s, lines, i) ==
    IF i > Len(lines) THEN s ELSE OnLines(OnLine(s, lines[i]), lines, i + 1)

\* mutant: a CR before an LF is a terminator of its own
RECURSIVE SplitLinesEach(_, _)
SplitLinesEach(data, cur) ==
    IF data = <<>> THEN <<cur>>
    ELSE IF Head(data) \in {"CR", "LF"}
         THEN <<cur>> \o SplitLinesEach(Tail(data), <<>>)
    ELSE SplitLinesEach(Tail(data), Append(cur, Head(data)))

\* data.split(/\r\n|\n|\r/)
RECURSIVE SplitLines(_, _)
SplitLines(data, cur) ==
    IF data = <<>> THEN <<cur>>
    ELSE IF Head(data) = "CR" /\ Len(data) > 1 /\ data[2] = "LF"
         THEN <<cur>> \o SplitLines(Tail(Tail(data)), <<>>)
    ELSE IF Head(data) \in {"CR", "LF"}
         THEN <<cur>> \o SplitLines(Tail(data), <<>>)
    ELSE SplitLines(Tail(data), Append(cur, Head(data)))

\* the loop of the default case: lines[i..], committing before all but lines[0]
RECURSIVE InsertLines(_, _, _)
InsertLines(s, lines, i) ==
    IF i > Len(lines) \/ ~Ok(s) THEN s
    ELSE Bind(IF i > 1 THEN Line(s) ELSE s, LAMBDA t :
             Bind(InsertString(t, lines[i]), LAMBDA u : InsertLines(u, lines, i + 1)))

NoKey == [name |-> "undefined", ctrl |-> FALSE, meta |-> FALSE, shift |-> FALSE,
          sequence |-> <<>>]

\* if (this._sawReturnAt && key.name !== 'enter') this._sawReturnAt = 0
ForgetReturn(s, key) ==
    IF s.sawReturnAt # 0 /\ key.name # "enter" THEN [s EXCEPT !.sawReturnAt = 0] ELSE s

\* case 'enter': commits unless a 'return' was seen no more than crlfDelay ago
Enter(s) ==
    [(IF s.sawReturnAt = 0 \/ s.now - s.sawReturnAt > s.crlfDelay THEN Line(s) ELSE s)
        EXCEPT !.sawReturnAt = 0]

\* case 'return': the time is stored in _sawRetrnAt, a field nothing reads
Return(s) == Line([s EXCEPT !.sawRetrnAt = s.now])

\* the switch on key.name for a key without ctrl and meta
TtyWritePlain(s, data, key) ==
    CASE key.name = "return" -> Return(s)
      [] key.name = "enter" -> Enter(s)
      [] key.name = "backspace" -> DeleteLeft(s)
      [] key.name = "delete" -> DeleteRight(s)
      [] key.name = "left" -> MoveCursor(s, Step(-1))
      [] key.name = "right" -> MoveCursor(s, Step(1))
      [] key.name = "home" -> MoveCursor(s, MinusInfinity)
      [] key.name = "end" -> MoveCursor(s, PlusInfinity)
      [] key.name = "up" -> HistoryPrev(s)
      [] key.name = "down" -> HistoryNext(s)
      [] key.name = "tab" -> s
      [] OTHER -> IF data # <<>> THEN InsertLines(s, SplitLines(data, <<>>), 1) ELSE s

TtyWrite(s, data, key) ==
    IF key.name = "escape" THEN s
    ELSE IF key.ctrl /\ key.shift THEN
        CASE key.name = "backspace" -> DeleteLineLeft(s)
          [] key.name = "delete" -> DeleteLineRight(s)
          [] OTHER -> s
    ELSE IF key.ctrl THEN
        CASE key.name = "c" ->     \* no break: falls through to case 'h'
                DeleteLeft(Interrupt(s))
          [] key.name = "h" -> DeleteLeft(s)
          [] key.name = "d" ->
                IF s.cursor = 0 /\ Len(s.line) = 0 THEN Close(s)
                ELSE IF s.cursor < Len(s.line) THEN DeleteRight(s) ELSE s
          [] key.name = "u" -> RefreshLine([s EXCEPT !.cursor = 0, !.line = <<>>])
          [] key.name = "k" -> DeleteLineRight(s)
          [] key.name = "a" -> MoveCursor(s, MinusInfinity)
          [] key.name = "e" -> MoveCursor(s, PlusInfinity)
          [] key.name = "b" -> MoveCursor(s, Step(-1))
          [] key.name = "f" -> MoveCursor(s, Step(1))
          \* cursorTo(0, 0) is the top of the screen, where the move up that
          \* begins _refreshLine has no effect: the prompt starts on that row
          [] key.name = "l" ->
                RefreshLine(CursorAt(s, [col |-> 0, row |-> s.prevRows]))
          [] key.name = "n" -> HistoryNext(s)
          [] key.name = "p" -> HistoryPrev(s)
          [] key.name \in {"w", "backspace"} -> DeleteWordLeft(s)
          [] key.name = "delete" -> DeleteWordRight(s)
          [] key.name = "left" -> WordLeft(s)
          [] key.name = "right" -> WordRight(s)
          [] OTHER -> s
    ELSE IF key.meta THEN
        CASE key.name = "b" -> WordLeft(s)
          [] key.name = "f" -> WordRight(s)
          [] key.name \in {"d", "delete"} -> DeleteWordRight(s)
          [] key.name = "backspace" -> DeleteWordLeft(s)
          [] OTHER -> s
    ELSE TtyWritePlain(ForgetReturn(s, key), data, key)

\* _normalWrite with a chunk that ends at a character boundary, so that
\* this._decoder.write(data) is the text of the chunk.  this._sawReturnAt is 0
\* in every state of a line-mode session (the one assignment of another value
\* calls Date.not, which is not a function), so the branch that drops a
\* leading LF is never taken.
NormalWrite(s, data) ==
    LET isMultiLine == IsMultiLine(data)
        string == IF Buffered(s) THEN s.lineBuffer \o data ELSE data
        t == IF Buffered(s) THEN [s EXCEPT !.lineBuffer = Null] ELSE s
    IN  IF isMultiLine
        THEN IF EndsWithCR(string) THEN Throw(t, "TypeError")
             ELSE LET lines == SplitLines(string, <<>>)
                  IN  OnLines([t EXCEPT !.lineBuffer = lines[Len(lines)]],
                              SubSeq(lines, 1, Len(lines) - 1), 1)
        ELSE IF string # <<>> THEN [t EXCEPT !.lineBuffer = string]
        ELSE t

\* onEnd: the 'end' listener of a line-mode session.  It emits
\* self._line_buffer: where the global self exists (a browser window) that
\* is undefined, where it does not the read throws.
OnEnd(s, globalSelf) ==
    IF Buffered(s)
    THEN IF globalSelf THEN Close(EmitLine(s, Undefined))
         ELSE Throw(s, "ReferenceError")
    ELSE Close(s)

-----------------------------------------------------------------------------
(* Construction *)

\* a session that no CommandClass runs
NoShell == [runs |-> 0, carets |-> 0]

Given(v) == [given |-> TRUE, value |-> v]
Absent == [given |-> FALSE, value |-> 0]

\* new Readline({input, output, historySize, prompt}): one argument
OptionsArgs(size, p) ==
    [form |-> "options", historySize |-> size, prompt |-> p, terminal |-> Absent]

\* new Readline({input, output, terminal})
TerminalOption(term) == [OptionsArgs(Absent, Absent) EXCEPT !.terminal = term]

\* new Readline(input, output, completer, terminal) with terminal true
PositionalArgs ==
    [form |-> "positional", historySize |-> Absent, prompt |-> Absent,
     terminal |-> Given(TRUE)]

\* new Readline(input, output, completer, terminal) with terminal false
PositionalLineArgs == [PositionalArgs EXCEPT !.terminal = Given(FALSE)]

Constructor(args, cols, listener) ==
    LET size == IF args.form = "options"
                THEN [defined |-> TRUE,
                      value |-> IF args.historySize.given /\ args.historySize.value # 0
                                THEN args.historySize.value ELSE HISTORY_SIZE]
                ELSE [defined |-> FALSE, value |-> 0]
        p == IF args.form = "options" /\ args.prompt.given /\ args.prompt.value # <<>>
             THEN args.prompt.value ELSE <<">">>
        \* input.terminal || true; positionally the argument, and without one
        \* !!output.isTTY, which the OutputStream of this repository lacks
        term == IF args.form = "options"
                THEN IF args.terminal.given /\ args.terminal.value
                     THEN args.terminal.value ELSE TRUE
                ELSE IF args.terminal.given THEN args.terminal.value ELSE FALSE
        \* input.crlfDelay || 200; positionally undefined >>> 0
        delay == IF args.form = "options" THEN DEFAULT_DELAY ELSE 0
        \* line, cursor, history and historyIndex are assigned in the terminal
        \* branch only; line mode never reads them
        s == [line |-> IF term THEN <<>> ELSE Undefined,
              cursor |-> 0, history |-> <<>>, historyIndex |-> -1,
              historySize |-> size, prompt |-> Undefined, oldPrompt |-> Undefined,
              questionCallback |-> NoCallback, paused |-> FALSE, closed |-> FALSE,
              prevRows |-> 0, watched |-> FALSE, tty |-> [col |-> 0, row |-> 0],
              terminal |-> term, lineBuffer |-> Undefined,
              now |-> 0, crlfDelay |-> Min(MIN_DELAY, Min(MAX_DELAY, delay)),
              sawReturnAt |-> 0, sawRetrnAt |-> 0,
              columns |-> cols, error |-> "none",
              lineListener |-> listener, sigintListeners |-> 0,
              received |-> <<>>, answers |-> <<>>, emitted |-> <<>>,
              shell |-> NoShell]
    IN  SetPrompt(s, p, FALSE)

\* the state in which a session s constructed with args starts
InitFrom(s, args) ==
    /\ config = args
    /\ nextCallback = 1
    /\ pending = <<>>
    /\ timer = FALSE
    /\ keys = <<>>
    /\ ignored = {}
    /\ line = s.line
    /\ cursor = s.cursor
    /\ history = s.history
    /\ historyIndex = s.historyIndex
    /\ historySize = s.historySize
    /\ prompt = s.prompt
    /\ oldPrompt = s.oldPrompt
    /\ questionCallback = s.questionCallback
    /\ paused = s.paused
    /\ closed = s.closed
    /\ prevRows = s.prevRows
    /\ watched = s.watched
    /\ tty = s.tty
    /\ terminal = s.terminal
    /\ lineBuffer = s.lineBuffer
    /\ now = s.now
    /\ crlfDelay = s.crlfDelay
    /\ sawReturnAt = s.sawReturnAt
    /\ sawRetrnAt = s.sawRetrnAt
    /\ columns = s.columns
    /\ error = s.error
    /\ lineListener = s.lineListener
    /\ sigintListeners = s.sigintListeners
    /\ received = s.received
    /\ answers = s.answers
    /\ emitted = s.emitted
    /\ shell = s.shell

InitWith(args, cols, listener) == InitFrom(Constructor(args, cols, listener), args)

\* the same, at a time of day: Date.now() is the time since 1970, never 0,
\* so that the 0 of _sawRetrnAt stands for the field not assigned yet
StartTime == 1
InitTimed(args, cols, listener) ==
    InitFrom([Constructor(args, cols, listener) EXCEPT !.now = StartTime], args)

\* the same, with the terminal of the output observed from the start
InitWatched(args, cols, listener) ==
    InitFrom([Constructor(args, cols, listener) EXCEPT !.watched = TRUE], args)

-----------------------------------------------------------------------------
(* CommandClass (src/src/CommandClass.js) *)

\* Readline.createInterface({ input, output, prompt }) with this.prompt, '> '
ShellArgs == OptionsArgs(Absent, Given(<<">", " ">>))

\* run(): a new session on the terminal, with onLine listening for 'line'
\* and the promise's resolve for 'close', and prompted
Run(sh) ==
    Prompt([Constructor(ShellArgs, 0, TRUE) EXCEPT
               !.watched = TRUE, !.shell = [sh EXCEPT !.runs = sh.runs + 1]],
           FALSE)

\* writeln('^C'): the line and '\r\n', written to the session's output
WriteCaretLine(s) ==
    [CursorAt(s, [col |-> 0, row |-> 0]) EXCEPT !.shell.carets = s.shell.carets + 1]

\* mutant: the '^C' line is written and run() is not called
CancelWithoutRun(s) == WriteCaretLine(s)

\* _cancel, the continuation of the promise that 'close' resolves; the new
\* session takes the place of the closed one in this._readline
Cancel(s) == Run(WriteCaretLine(s).shell)

-----------------------------------------------------------------------------
(* Handlers *)

\* the limits that keep the model finite
HistoryCap == HISTORY_SIZE + 1

Within(s) ==
    /\ Len(s.line) <= MaxLen
    /\ Len(s.received) <= MaxCommits
    /\ Len(s.history) <= HistoryCap
    /\ Len(s.emitted) <= MaxEvents
    /\ Len(s.lineBuffer) <= MaxLen

\* one handler run to completion: s is the session it leaves behind
Handler(s) ==
    \E after \in {s} :
        /\ Within(after)
        /\ Becomes(after)
        /\ UNCHANGED <<config, nextCallback, ignored, pending, timer, keys>>

CodePointAt0(str) == CodePoint(str[1])

\* the 'keypress' listener; detached by close, and silent while input is paused
OnKeyPress(s, data, key) ==
    Bind(TtyWrite(s, data, key),
         LAMBDA t : IF Ok(t) /\ key.sequence # <<>>
                        /\ CodePointAt0(key.sequence) >= 55296
                    THEN Throw(t, "ReferenceError") ELSE t)

KeyPress(data, key) ==
    /\ ~closed /\ ~paused /\ terminal
    /\ Handler(OnKeyPress(Self, data, key))

Write(s, data, key) ==
    LET r == IF s.paused THEN Resume(s) ELSE s
    IN  IF r.terminal THEN TtyWrite(r, data, key) ELSE NormalWrite(r, data)

CallWrite(data, key) ==
    /\ Len(line) + Len(data) <= MaxLen
    /\ Handler(Write(Self, data, key))

CallPrompt(preserveCursor) == Handler(Prompt(Self, preserveCursor))

CallSetPrompt(p, noPad) == Handler(SetPrompt(Self, p, noPad))

CallQuestion(query) ==
    /\ nextCallback <= MaxQuestions
    /\ Within(Question(Self, query, nextCallback))
    /\ Becomes(Question(Self, query, nextCallback))
    /\ nextCallback' = nextCallback + 1
    /\ ignored' = IF questionCallback # NoCallback
                  THEN ignored \cup {nextCallback} ELSE ignored
    /\ UNCHANGED <<config, pending, timer, keys>>

\* pause(), resume() and close() are the client's to call in any state
CallPause == Handler(Pause(Self))

CallResume == Handler(Resume(Self))

CallClose == Handler(Close(Self))

\* 'end' of the input; close detaches the listener, a paused input delivers nothing
TermEnd == ~closed /\ ~paused /\ terminal /\ Handler(OnTermEnd(Self))

\* 'data' and 'end' of the input of a line-mode session
LineData(r) == ~closed /\ ~paused /\ ~terminal /\ Handler(NormalWrite(Self, r))

LineEnd ==
    /\ ~closed /\ ~paused /\ ~terminal
    /\ \E globalSelf \in BOOLEAN : Handler(OnEnd(Self, globalSelf))

\* time passes between two events
TickMs == 60
Tick ==
    /\ now < StartTime + MaxTicks * TickMs
    /\ Handler([Self EXCEPT !.now = now + TickMs])

\* the promise of run(), which the 'close' listener resolves
Resolved == \E i \in DOMAIN emitted : emitted[i] = "close"

\* the continuation of the resolved promise runs
Cancelled == shell.runs > 0 /\ Resolved /\ Handler(Cancel(Self))

\* the client registers a listener: rl.on('SIGINT', ...)
CallOnSigint == sigintListeners = 0 /\ Handler([Self EXCEPT !.sigintListeners = 1])

-----------------------------------------------------------------------------
(* Keys *)

Key(name, ctrl, meta, shift, seq) ==
    [name |-> name, ctrl |-> ctrl, meta |-> meta, shift |-> shift, sequence |-> seq]

CharKey(c) == Key(IF c = " " THEN "space" ELSE c, FALSE, FALSE, FALSE, <<c>>)

PlainNames == {"return", "enter", "backspace", "delete", "left", "right", "home",
               "end", "up", "down", "tab", "escape"}
CtrlNames == {"c", "h", "d", "u", "k", "a", "e", "b", "f", "l", "n", "p", "z", "w",
              "backspace", "delete", "left", "right"}
MetaNames == {"b", "f", "d", "delete", "backspace"}
CtrlShiftNames == {"backspace", "delete"}

NamedKeys ==
    {Key(n, FALSE, FALSE, FALSE, <<"ESC">>) : n \in PlainNames} \cup
    {Key(n, TRUE, FALSE, FALSE, <<"ESC">>) : n \in CtrlNames} \cup
    {Key(n, FALSE, TRUE, FALSE, <<"ESC">>) : n \in MetaNames} \cup
    {Key(n, TRUE, FALSE, TRUE, <<"ESC">>) : n \in CtrlShiftNames}

-----------------------------------------------------------------------------
(* The escape decoder of the input and its timeout (emitKeypressEvents) *)

\* the empty string the timeout hands to the decoder
Timeout == ""

ArrowName(ch) ==
    CASE ch = "A" -> "up"
      [] OTHER -> "undefined"

\* the key of a character outside an escape sequence
PlainKey(ch) ==
    CASE ch = "CR" -> Key("return", FALSE, FALSE, FALSE, <<ch>>)
      [] ch = "LF" -> Key("enter", FALSE, FALSE, FALSE, <<ch>>)
      [] ch = "A" -> Key("a", FALSE, FALSE, TRUE, <<ch>>)
      [] ch = "[" -> Key("undefined", FALSE, FALSE, FALSE, <<ch>>)
      [] OTHER -> CharKey(ch)

\* one resumption of the decoder with ch: the buffer afterwards, whether a
\* 'keypress' is emitted, and its two arguments
Held(buf) == [buf |-> buf, emits |-> FALSE, data |-> <<>>, key |-> NoKey]
Emits(data, key) == [buf |-> <<>>, emits |-> TRUE, data |-> data, key |-> key]

EmitKeys(buf, ch) ==
    LET seq == IF ch = Timeout THEN buf ELSE Append(buf, ch)
    IN  IF buf = <<>>
        THEN IF ch = Timeout THEN Held(<<>>)
             ELSE IF ch = "ESC" THEN Held(<<"ESC">>)
             ELSE Emits(<<ch>>, PlainKey(ch))
        ELSE IF buf[Len(buf)] = "ESC"
        THEN IF ch = Timeout THEN Emits(<<>>, Key("escape", FALSE, TRUE, FALSE, seq))
             ELSE IF ch = "ESC" /\ Len(buf) = 1 THEN Held(seq)
             ELSE IF ch = "[" THEN Held(seq)
             ELSE Emits(<<>>, Key(IF ch \in WordChars THEN ch ELSE "undefined",
                                  FALSE, TRUE, FALSE, seq))
        ELSE Emits(<<>>, Key(ArrowName(ch), FALSE, FALSE, FALSE, seq))

\* the input stream as onData sees it
Stream == [s |-> Self, buf |-> pending, keys |-> keys, timer |-> timer]

\* one turn of the for loop of onData, with the character ch; isLast tells
\* whether the chunk ends with it.  When the listener throws the decoder is
\* created anew and the error rethrown.
FeedOne(st, ch, isLast) ==
    LET d == EmitKeys(st.buf, ch)
        ks == IF d.emits THEN Append(st.keys, d.key) ELSE st.keys
    IN  Bind(IF d.emits /\ ~st.s.closed
             THEN OnKeyPress(st.s, d.data, d.key) ELSE st.s,
             LAMBDA t :
                 IF ~Ok(t)
                 THEN [s |-> t, buf |-> <<>>, keys |-> ks, timer |-> st.timer]
                 ELSE [s |-> t, buf |-> d.buf, keys |-> ks,
                       timer |-> IF ch = "ESC" /\ isLast THEN TRUE ELSE st.timer])

\* the for loop of onData from r[i] on, ended by the first error
RECURSIVE Feed(_, _, _)
Feed(st, r, i) ==
    IF i > Len(r) \/ ~Ok(st.s) THEN st
    ELSE Bind(FeedOne(st, r[i], i = Len(r)), LAMBDA next : Feed(next, r, i + 1))

\* mutant: the pending timeout is not cleared when input arrives
OnDataKeepsTimer(st, r) == Feed(st, r, 1)

\* onData with a non-empty decoded chunk r
OnData(st, r) == Feed([st EXCEPT !.timer = FALSE], r, 1)

\* escapeCodeTimeout, run by the timer
EscapeCodeTimeout(st) ==
    LET d == EmitKeys(st.buf, Timeout)
    IN  [s |-> IF d.emits /\ ~st.s.closed
               THEN OnKeyPress(st.s, d.data, d.key) ELSE st.s,
         buf |-> d.buf,
         keys |-> IF d.emits THEN Append(st.keys, d.key) ELSE st.keys,
         timer |-> FALSE]

StreamBecomes(st) ==
    \E after \in {st} :
        /\ Within(after.s)
        /\ Len(after.keys) <= MaxKeys
        /\ Becomes(after.s)
        /\ pending' = after.buf
        /\ timer' = after.timer
        /\ keys' = after.keys
        /\ UNCHANGED <<config, nextCallback, ignored>>

\* a chunk of input; none arrives while the input is paused, and onData
\* detaches itself once close has removed the 'keypress' listener
Data(r) == ~closed /\ ~paused /\ terminal /\ StreamBecomes(OnData(Stream, r))

\* ESCAPE_CODE_TIMEOUT ms have passed since the timer was armed
TimerFires == timer /\ StreamBecomes(EscapeCodeTimeout(Stream))

-----------------------------------------------------------------------------
(* Editing sessions: every key, typed characters, written text, prompt() *)

EditChars == {"a", " "}
EditData == {<<c>> : c \in EditChars} \cup
            {<<"a", "a">>, <<"a", "LF">>, <<"LF">>, <<" ", "CR", "LF", "a">>}

InitEdit ==
    \E cols \in {0, TermColumns} :
        InitWith(OptionsArgs(Given(1), Absent), cols, FALSE)

NextEdit ==
    \/ \E k \in NamedKeys : KeyPress(<<>>, k)
    \/ \E c \in EditChars : Len(line) < MaxLen /\ KeyPress(<<c>>, CharKey(c))
    \/ \E d \in EditData : CallWrite(d, NoKey)
    \/ \E k \in NamedKeys : CallWrite(<<>>, k)
    \/ \E b \in BOOLEAN : CallPrompt(b)

SpecEdit == InitEdit /\ [][NextEdit]_vars

-----------------------------------------------------------------------------
(* History sessions: the user types a one-character line (or none), commits *)
(* it, and walks the history; a 'line' listener records what is delivered.  *)

ReturnKey == Key("return", FALSE, FALSE, FALSE, <<"CR">>)
EnterKey == Key("enter", FALSE, FALSE, FALSE, <<"LF">>)
UpKey == Key("up", FALSE, FALSE, FALSE, <<"ESC">>)
DownKey == Key("down", FALSE, FALSE, FALSE, <<"ESC">>)

HistoryChars == {"a", "b", "c", " "}

TypeLine(chars) == \E c \in chars : line = <<>> /\ KeyPress(<<c>>, CharKey(c))

PressReturn == KeyPress(<<>>, ReturnKey)
PressEnter == KeyPress(<<>>, EnterKey)
PressUp == KeyPress(<<>>, UpKey)
PressDown == KeyPress(<<>>, DownKey)

HistorySizes == {Absent} \cup {Given(n) : n \in 0..MaxHistorySize}

InitHistory ==
    \E size \in HistorySizes : InitWith(OptionsArgs(size, Absent), 0, TRUE)

NextHistory ==
    \/ TypeLine(HistoryChars)
    \/ PressReturn
    \/ PressEnter
    \/ PressUp
    \/ PressDown

SpecHistory == InitHistory /\ [][NextHistory]_vars

(* A session constructed with positional arguments, fed alternating lines *)

InitPositional == InitWith(PositionalArgs, 0, FALSE)

NextPositional ==
    \/ TypeLine({"a", "b"})
    \/ PressReturn
    \/ PressUp
    \/ PressDown

SpecPositional == InitPositional /\ [][NextPositional]_vars


(* Question sessions: the client sets prompts and asks questions while the  *)
(* user commits empty or one-character lines.                               *)

Prompts == {<<"p">>, <<"p", " ">>}
Queries == {<<"q">>}

InitQuestion == InitWith(OptionsArgs(Absent, Absent), 0, TRUE)

NextQuestion ==
    \/ TypeLine({"a"})
    \/ PressReturn
    \/ \E q \in Queries : CallQuestion(q)
    \/ \E p \in Prompts, noPad \in BOOLEAN : CallSetPrompt(p, noPad)
    \/ CallPause

SpecQuestion == InitQuestion /\ [][NextQuestion]_vars

(* Lifecycle sessions: the client pauses, resumes, prompts, writes, closes   *)
(* and may listen for SIGINT, while the user types, interrupts and ends the  *)
(* input.                                                                   *)

CtrlCKey == Key("c", TRUE, FALSE, FALSE, <<"ETX">>)
CtrlDKey == Key("d", TRUE, FALSE, FALSE, <<"EOT">>)

PressCtrlC == KeyPress(<<>>, CtrlCKey)
PressCtrlD == KeyPress(<<>>, CtrlDKey)

WriteChar == line = <<>> /\ CallWrite(<<"a">>, NoKey)

InitLifecycle == InitWith(OptionsArgs(Given(1), Absent), 0, FALSE)

NextLifecycle ==
    \/ TypeLine({"a"})
    \/ PressReturn
    \/ PressCtrlC
    \/ PressCtrlD
    \/ TermEnd
    \/ CallClose
    \/ CallPause
    \/ CallResume
    \/ \E b \in BOOLEAN : CallPrompt(b)
    \/ WriteChar
    \/ CallOnSigint

SpecLifecycle == InitLifecycle /\ [][NextLifecycle]_vars

(* Escape sessions: the input arrives in chunks, with and without escapes, *)
(* and the escape timeout fires when it is armed.                          *)

EscapeChunks == {<<"ESC">>, <<"[", "A">>, <<"ESC", "[", "A">>, <<"a">>}

InitEscape == InitWith(OptionsArgs(Given(1), Absent), 0, FALSE)

NextEscape ==
    \/ \E r \in EscapeChunks : Data(r)
    \/ TimerFires

SpecEscape == InitEscape /\ [][NextEscape]_vars

(* Display sessions: the terminal is observed while the client prompts and *)
(* the user types, moves the cursor, deletes and commits.                  *)

DisplayKeys ==
    {Key(n, FALSE, FALSE, FALSE, <<"ESC">>) :
        n \in {"left", "right", "home", "end", "backspace", "delete", "up"}} \cup
    {Key("l", TRUE, FALSE, FALSE, <<"FF">>)}

PressDisplayKey == \E k \in DisplayKeys : KeyPress(<<>>, k)

TypeChar == \E c \in {"a"} : Len(line) < MaxLen /\ KeyPress(<<c>>, CharKey(c))

InitDisplay ==
    \E cols \in {0, TermColumns} :
        InitWatched(OptionsArgs(Given(1), Absent), cols, FALSE)

NextDisplay ==
    \/ \E b \in BOOLEAN : CallPrompt(b)
    \/ TypeChar
    \/ PressDisplayKey
    \/ PressReturn

SpecDisplay == InitDisplay /\ [][NextDisplay]_vars

(* Sessions constructed from an options object that sets terminal: the     *)
(* input delivers chunks and ends, the client writes and prompts.          *)

ModeChunks == {<<"a">>, <<"LF">>}

\* the wiring of the constructor: one pair of listeners or the other
InputData(r) == IF terminal THEN Data(r) ELSE LineData(r)

InputEnd == IF terminal THEN TermEnd ELSE LineEnd

InitMode ==
    \E term \in {Given(TRUE), Given(FALSE)} : InitWith(TerminalOption(term), 0, TRUE)

NextMode ==
    \/ \E r \in ModeChunks : InputData(r)
    \/ InputEnd
    \/ \E r \in ModeChunks : CallWrite(r, NoKey)
    \/ \E b \in BOOLEAN : CallPrompt(b)

SpecMode == InitMode /\ [][NextMode]_vars

(* Line-mode sessions, constructed positionally with terminal false: the   *)
(* input delivers chunks and ends, the client writes and closes.           *)

LineChunks == {<<"a">>, <<"a", "LF">>, <<"LF">>, <<"a", "CR">>, <<"CR", "LF", "a">>}

InitLine == InitWith(PositionalLineArgs, 0, TRUE)

NextLine ==
    \/ \E r \in LineChunks : LineData(r)
    \/ LineEnd
    \/ \E r \in LineChunks : CallWrite(r, NoKey)
    \/ CallClose

SpecLine == InitLine /\ [][NextLine]_vars

(* Paused sessions: the input delivers characters and lone escapes while   *)
(* the client pauses and resumes, and the escape timeout fires when armed. *)

PauseChunks == {<<"ESC">>, <<"a">>}

InitPause == InitWith(OptionsArgs(Given(1), Absent), 0, FALSE)

NextPause ==
    \/ \E r \in PauseChunks : Data(r)
    \/ TimerFires
    \/ CallPause
    \/ CallResume

SpecPause == InitPause /\ [][NextPause]_vars

(* Timed sessions: carriage returns, line feeds and characters arrive on  *)
(* the input while time passes; a 'line' listener records the commits.     *)

CrlfChunks == {<<"CR">>, <<"LF">>, <<"a">>}

InitCrlf == InitTimed(OptionsArgs(Given(1), Absent), 0, TRUE)

NextCrlf ==
    \/ \E r \in CrlfChunks : Data(r)
    \/ Tick

SpecCrlf == InitCrlf /\ [][NextCrlf]_vars

(* Geometry sessions: terminals of two and more columns, on which the    *)
(* client sets short prompts and writes narrow and wide characters.        *)

GeometryColumns == 2..TermColumns
GeometryPrompts == {<<>>, <<">">>}
GeometryChars == {"a", "W"}

WriteGlyph == \E c \in GeometryChars : cursor = Len(line) /\ CallWrite(<<c>>, NoKey)

SetBarePrompt == \E p \in GeometryPrompts : CallSetPrompt(p, TRUE)

InitGeometry ==
    \E cols \in GeometryColumns : InitWith(OptionsArgs(Given(1), Absent), cols, FALSE)

NextGeometry ==
    \/ WriteGlyph
    \/ SetBarePrompt

SpecGeometry == InitGeometry /\ [][NextGeometry]_vars

(* Word sessions: the client writes word characters, spaces and            *)
(* punctuation at the end of the line; the user moves the cursor and       *)
(* deletes words to its left and to its right.                             *)

WordSessionChars == {"a", " ", "-"}

CtrlWKey == Key("w", TRUE, FALSE, FALSE, <<"ETB">>)
CtrlDeleteKey == Key("delete", TRUE, FALSE, FALSE, <<"ESC">>)
LeftKey == Key("left", FALSE, FALSE, FALSE, <<"ESC">>)
RightKey == Key("right", FALSE, FALSE, FALSE, <<"ESC">>)

WriteAtEnd == \E c \in WordSessionChars : cursor = Len(line) /\ CallWrite(<<c>>, NoKey)
PressLeft == KeyPress(<<>>, LeftKey)
PressRight == KeyPress(<<>>, RightKey)
PressDeleteWordLeft == KeyPress(<<>>, CtrlWKey)
PressDeleteWordRight == KeyPress(<<>>, CtrlDeleteKey)

InitWord == InitWith(OptionsArgs(Given(1), Absent), 0, FALSE)

NextWord ==
    \/ WriteAtEnd
    \/ PressLeft
    \/ PressRight
    \/ PressDeleteWordLeft
    \/ PressDeleteWordRight

SpecWord == InitWord /\ [][NextWord]_vars

(* Written sessions: the client writes text with and without line         *)
(* terminators, the user moves the cursor; a 'line' listener records the   *)
(* commits.                                                                *)

WriteData == {<<"a">>, <<"b", "LF">>, <<"CR", "LF", "a">>, <<"LF", "a", "CR">>,
              <<"CR", "CR", "LF">>, <<"LF", "CR">>}

WriteText == \E d \in WriteData : CallWrite(d, NoKey)

InitWrite ==
    \E cols \in {0, TermColumns} :
        InitWith(OptionsArgs(Given(1), Absent), cols, TRUE)

NextWrite ==
    \/ WriteText
    \/ PressLeft

SpecWrite == InitWrite /\ [][NextWrite]_vars

(* Shell sessions: a CommandClass runs the session; the user types lines,  *)
(* commits them, and closes the session with ctrl-c or with ctrl-d.        *)

ShellCtrlC == shell.runs <= MaxRuns /\ PressCtrlC
ShellCtrlD == shell.runs <= MaxRuns /\ PressCtrlD

InitShell == InitFrom(Run(NoShell), ShellArgs)

NextShell ==
    \/ TypeLine({"a", " "})
    \/ PressReturn
    \/ ShellCtrlC
    \/ ShellCtrlD
    \/ Cancelled

\* the continuation of a resolved promise is a job the event loop always runs
SpecShell == InitShell /\ [][NextShell]_vars /\ WF_vars(Cancelled)

-----------------------------------------------------------------------------
\* C1: in every reachable state of an interactive session the cursor lies
\* between 0 and the length of the line text, inclusive.
C1_CursorWithinLine == 0 <= cursor /\ cursor <= Len(line)

\* the cursor has been moved strictly inside a line recalled or typed earlier
C1_Witness == 0 < cursor /\ cursor < Len(line) /\ history # <<>>

\* C2: inserting a text t at the cursor makes the line left + t + right and
\* advances the cursor by the length of t; the empty text changes neither.
InsertTexts == {<<>>, <<"a", "a">>} \cup {<<c>> : c \in EditChars}

C2_InsertSplicesAtCursor ==
    [][\A t \in InsertTexts :
          CallWrite(t, NoKey) =>
              /\ line' = Slice(line, 0, cursor) \o t \o Slice(line, cursor, Len(line))
              /\ cursor' = cursor + Len(t)]_vars

\* the historySize the session was configured with (default HISTORY_SIZE)
ConfiguredHistorySize ==
    IF config.historySize.given THEN config.historySize.value ELSE HISTORY_SIZE

\* C3: however the session was constructed, the history never holds more
\* entries than the configured historySize (default 30).
C3_HistoryWithinConfiguredSize == Len(history) <= ConfiguredHistorySize

RECURSIVE Reverse(_)
Reverse(seq) == IF seq = <<>> THEN <<>> ELSE Append(Reverse(Tail(seq)), Head(seq))

Take(seq, n) == SubSeq(seq, 1, Min(n, Len(seq)))

NonBlank(l) == Trim(l) # <<>>

NoBlankNoRepeat(seq) ==
    /\ \A i \in DOMAIN seq : NonBlank(seq[i])
    /\ \A i \in DOMAIN seq : i > 1 => seq[i] # seq[i - 1]

\* C4: after committing non-blank lines none of which equals its predecessor,
\* the history is the last historySize of them, most recent first.
C4_HistoryIsLastCommits ==
    NoBlankNoRepeat(received) =>
        history = Take(Reverse(received), historySize.value)

\* three such lines were committed to a session of size 2: the oldest is gone
C4_Witness ==
    /\ historySize.value = 2
    /\ NoBlankNoRepeat(received)
    /\ Len(received) = 3
    /\ history = <<received[3], received[2]>>
    /\ received[1] \notin {received[2], received[3]}

InRest(l, h) == \E i \in DOMAIN h : i > 1 /\ h[i] = l

\* C5: committing a line equal to the history head leaves the history as it
\* is; committing a non-blank line equal to a non-head entry only pushes it.
C5_DedupAgainstHeadOnly ==
    [][PressReturn =>
          /\ (history # <<>> /\ line = history[1]) => history' = history
          /\ (NonBlank(line) /\ InRest(line, history) /\ line # history[1]) =>
                history' = Take(<<line>> \o history, historySize.value)]_vars

\* a line equal to the entry behind the head was committed and became the head
C5_Witness ==
    /\ Len(received) = 3
    /\ received[3] = received[1]
    /\ received[3] # received[2]
    /\ Len(history) >= 2
    /\ history[1] = received[3]
    /\ history[2] = received[2]

\* C6: committing an empty or whitespace-only line leaves the history unchanged.
C6_BlankCommitKeepsHistory ==
    [][(PressReturn \/ PressEnter) /\ Trim(line) = <<>> => history' = history]_vars

\* a whitespace-only line was committed after a line that is in the history
C6_Witness ==
    /\ Len(received) >= 2
    /\ received[Len(received)] = <<" ">>
    /\ history # <<>>

\* C7: a session configured with historySize = 0 never records history.
C7_ZeroSizeRecordsNothing ==
    config.historySize = Given(0) => history = <<>> /\ historyIndex = -1

\* C8: a line committed while a question is outstanding goes to that
\* question's callback and not to the 'line' listeners, the callback is then
\* disarmed and no callback is ever invoked twice; any other committed line
\* is emitted as a 'line' event.
C8_QuestionTakesNextLine ==
    /\ [](\A i, j \in DOMAIN answers : answers[i][1] = answers[j][1] => i = j)
    /\ [][PressReturn =>
            IF questionCallback # NoCallback
            THEN /\ answers' = Append(answers, <<questionCallback, line>>)
                 /\ received' = received
                 /\ questionCallback' = NoCallback
            ELSE /\ received' = Append(received, line)
                 /\ answers' = answers]_vars

\* both questions were answered, one with the empty line, and a later line
\* reached the listener
C8_Witness ==
    /\ Len(answers) = 2
    /\ answers[1][2] = <<>>
    /\ received # <<>>
    /\ questionCallback = NoCallback

\* C9: when a question's callback is invoked the prompt is again the prompt
\* text that was in effect just before question() was called.
C9_PromptRestored ==
    [][PressReturn /\ questionCallback # NoCallback => prompt' = oldPrompt]_vars

\* C10: question() while a question is outstanding only re-displays the
\* prompt: the armed callback, the saved prompt and the prompt text stay, and
\* the callback of the ignored call is never invoked.
C10_SecondQuestionIgnored ==
    /\ [](\A i \in DOMAIN answers : answers[i][1] \notin ignored)
    /\ [][\A q \in Queries :
            CallQuestion(q) /\ questionCallback # NoCallback =>
                /\ questionCallback' = questionCallback
                /\ oldPrompt' = oldPrompt
                /\ prompt' = prompt
                /\ <<line', history', answers', received'>> =
                       <<line, history, answers, received>>]_vars

\* the second call was ignored and the next line went to the first callback
C10_Witness ==
    /\ 2 \in ignored
    /\ answers # <<>>
    /\ answers[1][1] = 1


-----------------------------------------------------------------------------
\* how often a notification was emitted
CountOf(name, log) == Cardinality({i \in DOMAIN log : log[i] = name})

\* the operations that close a session: close(), end of the input, ctrl-c
\* without a SIGINT listener, ctrl-d on an empty line
ClosingStep ==
    \/ CallClose
    \/ TermEnd
    \/ sigintListeners = 0 /\ PressCtrlC
    \/ line = <<>> /\ PressCtrlD

\* C11: over any sequence of operations, 'close' has been emitted once when
\* the session is closed and never when it is open; every closing operation
\* leaves the session closed with exactly one 'close' emitted, however many
\* came before; and a closed session never becomes open again.
C11_CloseEmittedOnce ==
    /\ [](CountOf("close", emitted) = IF closed THEN 1 ELSE 0)
    /\ [][ClosingStep => closed' /\ CountOf("close", emitted') = 1]_vars
    /\ [][closed => closed']_vars

\* a session closed after it was paused, with the one 'close' emitted last
C11_Witness ==
    /\ closed /\ paused
    /\ Len(emitted) >= 2 /\ emitted[Len(emitted)] = "close"
    /\ CountOf("close", emitted) = 1

\* C12: ctrl-c with a SIGINT listener registered emits 'SIGINT' and leaves
\* the session open; ctrl-c with none closes the session and emits no 'SIGINT'.
C12_InterruptOrClose ==
    [][PressCtrlC =>
          IF sigintListeners > 0
          THEN emitted' = Append(emitted, "SIGINT") /\ ~closed'
          ELSE closed' /\ CountOf("SIGINT", emitted') = CountOf("SIGINT", emitted)]_vars

\* ctrl-c was pressed twice with a listener registered, the session is open
C12_Witness ==
    sigintListeners > 0 /\ CountOf("SIGINT", emitted) = 2 /\ ~closed

\* the 'pause' and 'resume' notifications, in the order emitted
PauseResume(log) == SelectSeq(log, LAMBDA e : e \in {"pause", "resume"})

\* C13: the 'pause' and 'resume' notifications alternate, starting with
\* 'pause', and the session is paused exactly when the last one is 'pause':
\* pause() emits only when not paused, and resume(), prompt() and write()
\* emit 'resume' only when paused.
C13_PauseResumeAlternate ==
    LET pr == PauseResume(emitted)
    IN  /\ \A i \in DOMAIN pr : pr[i] = IF i % 2 = 1 THEN "pause" ELSE "resume"
        /\ paused <=> Len(pr) % 2 = 1

\* the session was paused, resumed and paused again
C13_Witness == Len(PauseResume(emitted)) >= 3 /\ paused


\* the entry of the history at a 0-based navigation index
Entry(i) == history[i + 1]

\* C14: the navigation index stays between -1 and history length - 1; 'up'
\* steps to the next older entry and changes nothing at the oldest; 'down'
\* steps to the next newer entry, restores the empty line with cursor 0 from
\* the newest, and changes nothing when not browsing; after a recall the
\* line is the entry at the index and the cursor is at its end.
C14_HistoryNavigation ==
    /\ [](-1 <= historyIndex /\ historyIndex <= Len(history) - 1)
    /\ [][PressUp =>
             IF historyIndex + 1 < Len(history)
             THEN /\ historyIndex' = historyIndex + 1
                  /\ line' = Entry(historyIndex + 1)
                  /\ cursor' = Len(line')
                  /\ history' = history
             ELSE UNCHANGED <<historyIndex, line, cursor, history>>]_vars
    /\ [][PressDown =>
             IF historyIndex > 0
             THEN /\ historyIndex' = historyIndex - 1
                  /\ line' = Entry(historyIndex - 1)
                  /\ cursor' = Len(line')
                  /\ history' = history
             ELSE IF historyIndex = 0
                  THEN /\ historyIndex' = -1
                       /\ line' = <<>>
                       /\ cursor' = 0
                       /\ history' = history
             ELSE UNCHANGED <<historyIndex, line, cursor, history>>]_vars

\* the older of two entries is recalled, the cursor at its end
C14_Witness ==
    /\ Len(history) >= 2
    /\ historyIndex = 1
    /\ line = Entry(1) /\ line # Entry(0)
    /\ cursor = Len(line)

EscapeKey == Key("escape", FALSE, TRUE, FALSE, <<"ESC">>)
ArrowUpKey == Key("up", FALSE, FALSE, FALSE, <<"ESC", "[", "A">>)

\* C15: a chunk that is a lone ESC emits no key and arms the timeout; when
\* the timeout fires with that ESC still pending exactly one key, the raw
\* escape, is emitted; when instead the arrow suffix arrives first exactly
\* one key, the named arrow, is emitted, the timeout is cancelled and
\* nothing stays pending; a timeout that finds nothing pending emits no key.
C15_EscapeTimeout ==
    /\ [][pending = <<>> /\ Data(<<"ESC">>) =>
             keys' = keys /\ timer' /\ pending' = <<"ESC">>]_vars
    /\ [][pending = <<"ESC">> /\ TimerFires =>
             keys' = Append(keys, EscapeKey) /\ ~timer' /\ pending' = <<>>]_vars
    /\ [][pending = <<"ESC">> /\ timer /\ Data(<<"[", "A">>) =>
             keys' = Append(keys, ArrowUpKey) /\ ~timer' /\ pending' = <<>>]_vars
    /\ [][pending = <<>> /\ TimerFires => keys' = keys]_vars

\* one lone ESC timed out and another was completed to an arrow key
C15_Witness ==
    /\ Len(keys) = 2
    /\ keys[1] = EscapeKey /\ keys[2] = ArrowUpKey
    /\ ~timer /\ pending = <<>>

\* C16: a session constructed from an options object that sets terminal is
\* in the mode the option names: line mode for false, interactive for true.
C16_TerminalOptionSelectsMode ==
    config.form = "options" /\ config.terminal.given =>
        terminal = config.terminal.value

\* C17: when the input of a line-mode session ends with a non-empty partial
\* line buffered, that text is delivered as one final line and the session
\* closes; with nothing buffered the session closes and no line is delivered.
C17_EndFlushesPartialLine ==
    [][LineEnd =>
          /\ received' = IF Buffered(Self) THEN Append(received, lineBuffer)
                         ELSE received
          /\ closed'
          /\ emitted' = Append(emitted, "close")]_vars

\* _deleteLeft called n times, unless an error ended the sequence before
RECURSIVE DeleteLeftTimes(_, _)
DeleteLeftTimes(s, n) ==
    IF n = 0 \/ ~Ok(s) THEN s ELSE DeleteLeftTimes(DeleteLeft(s), n - 1)

\* C18: in every state an interactive session reaches, inserting a text t
\* and then deleting to the left length(t) times gives back the line text.
C18_InsertThenDeleteLeft ==
    \A t \in InsertTexts :
        LET after == DeleteLeftTimes(InsertString(Self, t), Len(t))
        IN  Ok(after) /\ after.line = line

\* C19: no key event and no written text makes an operation of the session
\* raise an error.
C19_NoOperationRaises == error = "none"

\* the terminal's cursor is where the logical cursor is displayed, and the
\* recorded row count is that row
InSync ==
    LET pos == GetCursorPos(Self)
    IN  tty.col = pos.cols /\ tty.row = pos.rows /\ prevRows = pos.rows

\* C20: a cursor movement or an edit, made when the terminal's cursor is
\* where the logical cursor is displayed, leaves it where the logical cursor
\* is displayed afterwards, with the recorded row count equal to that row.
C20_TerminalCursorFollows ==
    [][(TypeChar \/ PressDisplayKey) /\ InSync => InSync']_vars


\* the keys that edit the line: the delete variants, the line clear (ctrl-u)
\* and the two commits
EditKeys ==
    {Key(n, FALSE, FALSE, FALSE, <<"ESC">>) : n \in {"backspace", "delete", "return", "enter"}} \cup
    {Key(n, TRUE, FALSE, FALSE, <<"ESC">>) : n \in {"h", "u", "k", "w", "delete"}} \cup
    {Key(n, TRUE, FALSE, TRUE, <<"ESC">>) : n \in CtrlShiftNames}

\* an edit other than history navigation: a character typed or an edit key,
\* handled without an error
EditStep ==
    /\ \/ \E k \in EditKeys : KeyPress(<<>>, k)
       \/ \E c \in EditChars : KeyPress(<<c>>, CharKey(c))
    /\ error' = "none"

\* C21: after an insert, a delete of any kind, a line clear or a commit of
\* any line, blank ones included, the history navigation index is -1.
C21_EditResetsHistoryIndex == [][EditStep => historyIndex' = -1]_vars


\* C22: while the session is paused, when no input is delivered, the line
\* text, the cursor and the pending escape stay as they were at the pause and
\* no key event reaches the editor, an armed escape timeout notwithstanding.
C22_PauseKeepsLineAndEscape ==
    [][paused => /\ line' = line
                 /\ cursor' = cursor
                 /\ pending' = pending
                 /\ keys' = keys]_vars


\* C23: input that arrives cancels the armed escape timeout, and only a chunk
\* that ends with ESC arms it again, so that one timeout at most is armed;
\* the timeout is disarmed when it fires, so that it fires once; and it fires
\* only into a decoder that holds exactly the lone ESC that armed it.
C23_SingleEscapeTimer ==
    /\ [][\A r \in EscapeChunks :
             Data(r) => (timer' <=> r[Len(r)] = "ESC")]_vars
    /\ [][TimerFires => ~timer']_vars
    /\ [][TimerFires => pending = <<"ESC">>]_vars


\* the key handled last was a 'return', no more than crlfDelay ago
ReturnJustSeen ==
    /\ keys # <<>>
    /\ keys[Len(keys)].name = "return"
    /\ now - sawRetrnAt <= crlfDelay

\* C24: a 'return' commits the line; an 'enter' that follows a 'return'
\* within crlfDelay milliseconds commits nothing, and every other 'enter'
\* commits the line.
C24_ReturnEnterCoalesced ==
    /\ [][Data(<<"CR">>) => received' = Append(received, line)]_vars
    /\ [][Data(<<"LF">>) =>
             received' = IF ReturnJustSeen THEN received
                         ELSE Append(received, line)]_vars


\* the text _refreshLine measures, and its display position up to n characters
Measured == prompt \o line
PosOf(n) == GetDisplayPos(Self, SubSeq(Measured, 1, n))

\* columns - 1 narrow characters followed by one wide code point
NarrowsThenWide(str) ==
    /\ Len(str) = columns
    /\ \A i \in 1..(columns - 1) : str[i] \notin WideChars
    /\ str[columns] \in WideChars

\* a wide code point that ends one column into a row began in the last
\* column of the row above; every reported column is one of the terminal's
NoStraddle ==
    /\ \A n \in 1..Len(Measured) : Measured[n] \in WideChars => PosOf(n).cols # 1
    /\ \A n \in 0..Len(Measured) : PosOf(n).cols \in 0..(columns - 1)

\* C25 as stated: with c >= 2 columns no wide code point straddles a row
\* boundary, every column is in [0, c-1], and c-1 narrow characters followed
\* by a wide one end at row 1, column 2.
C25_WideWrapAsStated ==
    /\ NoStraddle
    /\ NarrowsThenWide(Measured) => PosOf(Len(Measured)) = [cols |-> 2, rows |-> 1]

\* C25: with c >= 2 columns no wide code point straddles a row boundary and
\* every column is in [0, c-1]; c-1 narrow characters followed by a wide one
\* end at row 1, column 2 when c >= 3, and at row 2, column 0 when c = 2,
\* where the wide code point fills its row.
C25_WideWrap ==
    /\ NoStraddle
    /\ NarrowsThenWide(Measured) =>
          PosOf(Len(Measured)) = IF columns = 2 THEN [cols |-> 0, rows |-> 2]
                                 ELSE [cols |-> 2, rows |-> 1]

\* on three or more columns the last column was padded before a wide code point
C25_Witness ==
    /\ columns >= 3
    /\ NarrowsThenWide(Measured)
    /\ PosOf(Len(Measured)) = [cols |-> 2, rows |-> 1]


\* the text left and right of the cursor
LeftOfCursor == SubSeq(line, 1, cursor)
RightOfCursor == SubSeq(line, cursor + 1, Len(line))

\* what deleteWordLeft is to keep of the text left of the cursor: all but the
\* whitespace that ends it and the one run, of word characters or of
\* punctuation, before that whitespace
KeptLeft(str) ==
    LET sp == SuffixRun(str, {"space"})
        rest == SubSeq(str, 1, Len(str) - sp)
        run == IF rest = <<>> THEN 0
               ELSE SuffixRun(rest, {CharClass(rest[Len(rest)])})
    IN  SubSeq(rest, 1, Len(rest) - run)

\* what deleteWordRight is to keep of a text right of the cursor that begins
\* with a word character or with punctuation: all but the one run that
\* begins it and the whitespace after that run
KeptRight(str) ==
    LET run == PrefixRun(str, {CharClass(str[1])})
        rest == SubSeq(str, run + 1, Len(str))
    IN  SubSeq(rest, PrefixRun(rest, {"space"}) + 1, Len(rest))

\* C26: deleteWordLeft removes the whitespace left of the cursor and the one
\* run of word characters or of punctuation before it; deleteWordRight
\* removes the one such run right of the cursor and the whitespace after it;
\* each changes nothing at its edge of the line and leaves the text on the
\* other side of the cursor as it is.
C26_DeleteWord ==
    /\ [][PressDeleteWordLeft =>
             IF cursor = 0 THEN UNCHANGED <<line, cursor>>
             ELSE /\ line' = KeptLeft(LeftOfCursor) \o RightOfCursor
                  /\ cursor' = Len(KeptLeft(LeftOfCursor))]_vars
    /\ [][PressDeleteWordRight =>
             IF cursor = Len(line) THEN UNCHANGED <<line, cursor>>
             ELSE /\ cursor' = cursor
                  /\ SubSeq(line', 1, cursor) = LeftOfCursor
                  /\ CharClass(RightOfCursor[1]) # "space" =>
                        line' = LeftOfCursor \o KeptRight(RightOfCursor)]_vars


\* C27: handling ctrl-c leaves the line text and the cursor as they are,
\* with a SIGINT listener registered and without one.
C27_InterruptKeepsLine == [][PressCtrlC => line' = line /\ cursor' = cursor]_vars


\* the positions of data at which a line terminator ends: an LF, or a CR
\* that no LF follows
TerminatorEnds(data) ==
    {i \in DOMAIN data :
        \/ data[i] = "LF"
        \/ data[i] = "CR" /\ ~(i < Len(data) /\ data[i + 1] = "LF")}

\* the position at which the n-th terminator of data ends; 0 for n = 0
EndOf(data, n) ==
    IF n = 0 THEN 0
    ELSE CHOOSE i \in TerminatorEnds(data) :
             Cardinality({j \in TerminatorEnds(data) : j <= i}) = n

\* the n-th segment of data: the text between the terminators n - 1 and n
Segment(data, n) ==
    LET k == Cardinality(TerminatorEnds(data))
        to == IF n = k + 1 THEN Len(data) ELSE EndOf(data, n)
    IN  SelectSeq(SubSeq(data, EndOf(data, n - 1) + 1, to),
                  LAMBDA c : c \notin {"CR", "LF"})

\* C28: writing text with k line terminators (CR LF, LF or CR) with the
\* cursor at the end of the line commits k lines in order, the first the
\* line so far followed by the first segment and the others the segments
\* alone, and leaves the last segment as the line, the cursor at its end.
C28_WriteCommitsEachLine ==
    [][\A d \in WriteData :
          CallWrite(d, NoKey) /\ cursor = Len(line) =>
              LET k == Cardinality(TerminatorEnds(d))
              IN  /\ received' = received \o
                        [n \in 1..k |-> (IF n = 1 THEN line ELSE <<>>) \o Segment(d, n)]
                  /\ line' = (IF k = 0 THEN line ELSE <<>>) \o Segment(d, k + 1)
                  /\ cursor' = Len(line')
                  /\ error' = "none"]_vars

\* 'ab' was committed by a write that ended the line, then an empty line and
\* 'a' by one write with two terminators, which left the line empty
C28_Witness ==
    /\ received = <<<<"a", "b">>, <<>>, <<"a">>>>
    /\ line = <<>>
    /\ cursor = 0


\* the prompt has been written at the start of a row and the cursor is after it
PromptShown == ~closed /\ line = <<>> /\ tty = [col |-> Len(prompt), row |-> 0]

\* C29: a session that a CommandClass runs and that closes is followed by
\* one '^C' line and one more call of run(), which leaves a new session with
\* an empty line and an empty history, its prompt displayed; run() is called
\* and '^C' written at no other time; and a closed session is always
\* followed by an open one.
C29_ShellRestarts ==
    /\ [][closed =>
             /\ shell' = [runs |-> shell.runs + 1, carets |-> shell.carets + 1]
             /\ history' = <<>> /\ cursor' = 0 /\ received' = <<>>
             /\ PromptShown']_vars
    /\ [][~closed => shell' = shell]_vars
    /\ [](shell.runs = shell.carets + 1)
    /\ (closed ~> PromptShown)

\* two sessions were closed and the third displays its prompt
C29_Witness == shell.runs = 3 /\ shell.carets = 2 /\ PromptShown /\ history = <<>>

=============================================================================
